---- MODULE Spec2Model ----
(***************************************************************************)
(* Model of src/webhook.js: the WhatsApp Cloud API webhook of Brian-XMD.   *)
(*                                                                         *)
(* JavaScript strings are modelled as sequences of one-character strings,  *)
(* so that trim, split, slice, toLowerCase and includes are computed the   *)
(* way the code computes them.                                             *)
(***************************************************************************)
EXTENDS Naturals, Sequences, FiniteSets, TLC

\* ------------------------------------------------------------------ bounds
\* Longest inbound text, counted in atoms of TextAtoms.
MaxAtoms == 3
\* Most messages in one POST delivery.
MaxMsgs == 2
\* Most register calls in the registry specification.
MaxRegs == 2
\* Most aliases of a descriptor in the registry specification.
MaxAliases == 1

\* ----------------------------------------------------- JavaScript strings
UpperChars == <<"A","B","C","D","E","F","G","H","I","J","K","L","M",
                "N","O","P","Q","R","S","T","U","V","W","X","Y","Z">>
LowerChars == <<"a","b","c","d","e","f","g","h","i","j","k","l","m",
                "n","o","p","q","r","s","t","u","v","w","x","y","z">>

\* One character of String.prototype.toLowerCase.
LowerChar(c) ==
  IF \E i \in 1..Len(UpperChars) : UpperChars[i] = c
  THEN LowerChars[CHOOSE i \in 1..Len(UpperChars) : UpperChars[i] = c]
  ELSE c

\* String.prototype.toLowerCase.
ToLowerCase(s) == [i \in 1..Len(s) |-> LowerChar(s[i])]

\* The white space String.prototype.trim removes (the characters the model uses).
IsWhiteSpace(c) == c \in {" ", "\t", "\n"}

RECURSIVE TrimStart(_)
TrimStart(s) ==
  IF s # <<>> /\ IsWhiteSpace(Head(s)) THEN TrimStart(Tail(s)) ELSE s

RECURSIVE TrimEnd(_)
TrimEnd(s) ==
  IF s # <<>> /\ IsWhiteSpace(s[Len(s)])
  THEN TrimEnd(SubSeq(s, 1, Len(s) - 1)) ELSE s

\* String.prototype.trim.
Trim(s) == TrimEnd(TrimStart(s))

\* String.prototype.split(sep) for a one-character separator: always at
\* least one piece, empty pieces kept.
RECURSIVE SplitFrom(_, _, _, _)
SplitFrom(s, sep, i, cur) ==
  IF i > Len(s) THEN <<cur>>
  ELSE IF s[i] = sep THEN <<cur>> \o SplitFrom(s, sep, i + 1, <<>>)
  ELSE SplitFrom(s, sep, i + 1, Append(cur, s[i]))

Split(s, sep) == SplitFrom(s, sep, 1, <<>>)

\* Array.prototype.filter(Boolean) on an array of strings: "" is falsy.
IsTruthyStr(t) == t # <<>>
FilterBoolean(ts) == SelectSeq(ts, IsTruthyStr)

\* Array.prototype.join(sep).
RECURSIVE Join(_, _)
Join(ts, sep) ==
  IF ts = <<>> THEN <<>>
  ELSE IF Len(ts) = 1 THEN ts[1]
  ELSE ts[1] \o <<sep>> \o Join(Tail(ts), sep)

\* String.prototype.startsWith for a one-character prefix.
StartsWith(s, c) == Len(s) >= 1 /\ s[1] = c

\* String.prototype.slice(1) and Array.prototype.slice(1).
Slice1(s) == SubSeq(s, 2, Len(s))

\* String.prototype.includes for a one-character needle.
Includes(s, c) == \E i \in 1..Len(s) : s[i] = c

\* ------------------------------------------------------------ the registry
\* The names the built-in commands are registered under.
kStart     == <<"s","t","a","r","t">>
kWelcome   == <<"w","e","l","c","o","m","e">>
kBegin     == <<"b","e","g","i","n">>
kPing      == <<"p","i","n","g">>
kP         == <<"p">>
kHelp      == <<"h","e","l","p">>
kH         == <<"h">>
kTranslate == <<"t","r","a","n","s","l","a","t","e">>
kTr        == <<"t","r">>
kTts       == <<"t","t","s">>
kVoice     == <<"v","o","i","c","e">>
kEcho      == <<"e","c","h","o">>

\* A command descriptor { name, description, aliases, execute }.  id stands
\* for the identity of the JavaScript object; isArr is Array.isArray(aliases);
\* execute is "none" when it is not a function; an absent descriptor or an
\* absent name is the empty name.
Cmd(id, name, aliases, execute) ==
  [id |-> id, name |-> name, aliases |-> aliases, isArr |-> TRUE,
   execute |-> execute]

\* The six descriptors of the file, in the order they are registered.
Builtins ==
  << Cmd(1, kStart, <<kWelcome, kBegin>>, "start"),
     Cmd(2, kPing, <<kP>>, "ping"),
     Cmd(3, kHelp, <<kH>>, "help"),
     Cmd(4, kTranslate, <<kTr>>, "translate"),
     Cmd(5, kTts, <<kVoice>>, "tts"),
     Cmd(6, kEcho, <<>>, "echo") >>

\* A Map is the sequence of its entries in insertion order.
MapHas(m, k) == \E i \in 1..Len(m) : m[i].k = k
MapGet(m, k) == m[CHOOSE i \in 1..Len(m) : m[i].k = k].v
MapSet(m, k, v) ==
  IF MapHas(m, k)
  THEN [i \in 1..Len(m) |-> IF m[i].k = k THEN [k |-> k, v |-> v] ELSE m[i]]
  ELSE Append(m, [k |-> k, v |-> v])
MapKeys(m) == {m[i].k : i \in 1..Len(m)}

\* for (const a of cmd.aliases) commands.set(a, cmd)
RECURSIVE SetAliases(_, _, _)
SetAliases(m, as, cmd) ==
  IF as = <<>> THEN m
  ELSE SetAliases(MapSet(m, Head(as), cmd), Tail(as), cmd)

\* The guard of register: the descriptor is stored at all.
Accepted(cmd) == cmd.name # <<>> /\ cmd.execute # "none"

\* Fault: register that stores the canonical name and forgets the aliases.
registerNameOnly(m, cmd) ==
  IF ~Accepted(cmd) THEN m ELSE MapSet(m, cmd.name, cmd)

\* register(cmd), as a function of the Map before.
register(m, cmd) ==
  IF ~Accepted(cmd) THEN m
  ELSE LET m1 == MapSet(m, cmd.name, cmd)
       IN  IF cmd.isArr THEN SetAliases(m1, cmd.aliases, cmd) ELSE m1

RECURSIVE RegisterAll(_, _)
RegisterAll(m, cmds) ==
  IF cmds = <<>> THEN m ELSE RegisterAll(register(m, Head(cmds)), Tail(cmds))

\* The registry once the module is loaded.
BuiltinCommands == RegisterAll(<<>>, Builtins)

\* The help listing: one "/<name>" line per distinct canonical name, in the
\* order of commands.values().
RECURSIVE HelpLines(_, _, _)
HelpLines(m, i, seen) ==
  IF i > Len(m) THEN <<>>
  ELSE IF m[i].v.name \in seen THEN HelpLines(m, i + 1, seen)
  ELSE <<"/">> \o m[i].v.name \o <<"\n">>
       \o HelpLines(m, i + 1, seen \cup {m[i].v.name})

\* --------------------------------------------------------------- the state
VARIABLES
  VERIFY_TOKEN,  \* process.env.WHATSAPP_VERIFY_TOKEN, read once at load
  commands,      \* the registry Map
  registered,    \* the descriptors register has stored, in call order
  pc,            \* where the request is: idle, loop, await, iterEnd, returned, raised, done
  req,           \* the request: its method, query and body shape
  status,        \* the response status, 0 while no response is sent
  resBody,       \* the response body
  n,             \* messages in the delivery, in the order the loops visit them
  idx,           \* messages whose iteration has ended
  msg,           \* the message of the current iteration
  ctx,           \* the ctx object of the current dispatch
  cmdName,       \* the name given to dispatchCommandByName
  caller,        \* the call site of dispatchCommandByName
  did,           \* what dispatchCommandByName returned: none, true, false
  invoked,       \* the execute functions called in this iteration
  pend,          \* the outbound call being awaited
  sent,          \* the sendToMeta calls of this iteration, with their outcome
  calls,         \* the translateText calls of this iteration
  thrown         \* the messages of the errors raised in this iteration

vars == <<VERIFY_TOKEN, commands, registered, pc, req, status,
          resBody, n, idx, msg, ctx, cmdName, caller, did, invoked, pend,
          sent, calls, thrown>>

\* undefined, as a value of a query parameter or of an environment variable.
Undef == "<undefined>"

\* ----------------------------------------------------------------- inputs
\* What the environment variable can hold: unset, or a secret.
EnvTokens == {Undef, "s3cret"}
\* What a query parameter can hold.
QueryValues == {Undef, "", "s3cret", "other"}
Queries ==
  [hubMode : {Undef, "", "subscribe"}, mode : {Undef, "subscribe"},
   hubToken : QueryValues, token : QueryValues,
   hubChallenge : {Undef, "", "1158201444"}, challenge : {Undef, "42"}]
NoQuery ==
  [hubMode |-> Undef, mode |-> Undef, hubToken |-> Undef, token |-> Undef,
   hubChallenge |-> Undef, challenge |-> Undef]

Senders == {"254700000001"}

\* The pieces inbound texts are made of.
TextAtoms ==
  { <<" ">>, <<"\t">>, <<"/">>, <<"!">>, <<"H","i">>, kStart, kP, kTr, kTts,
    <<"|">>, <<"|","y">> }

RECURSIVE TextsUpTo(_)
TextsUpTo(k) ==
  IF k = 0 THEN { <<>> }
  ELSE LET shorter == TextsUpTo(k - 1)
       IN  shorter \cup { t \o a : t \in shorter, a \in TextAtoms }

Texts == TextsUpTo(MaxAtoms)

\* A message of value.messages: from, type, and text.body when hasBody.
Messages ==
  [from : Senders, type : {"text"}, hasBody : {TRUE}, body : Texts]
  \cup [from : Senders, type : {"text", "image"}, hasBody : {FALSE},
        body : { <<>> }]
  \cup [from : Senders, type : {"image"}, hasBody : {TRUE},
        body : TextsUpTo(1)]
NoMsg == [from |-> "", type |-> "", hasBody |-> FALSE, body |-> <<>>]

\* The messages of the errors fetch rejects with.
ErrMessages == {"fetch failed", ""}

\* What the translation endpoint answers: the request throws, or a JSON body
\* whose translatedText is absent or empty (<<>>), or a translation.
Halo == <<"H","a","l","o">>
TranslateResponses ==
  { [throws |-> TRUE, translatedText |-> <<>>],
    [throws |-> FALSE, translatedText |-> <<>>],
    [throws |-> FALSE, translatedText |-> Halo] }

\* ------------------------------------------------------- outbound payloads
\* An outbound call being made: where in the file (site), what (kind: text,
\* audio, translate, ttsUrl), to whom, the fixed wording (tpl) and the part
\* of the body that is computed (arg).
Call(site, kind, to, tpl, arg) ==
  [site |-> site, kind |-> kind, to |-> to, tpl |-> tpl, arg |-> arg]
NoCall == Call("none", "none", "", "", <<>>)

\* sendText(to, text) and sendAudioLink(to, url): the payload handed to sendToMeta.
SendText(site, to, tpl, arg) == Call(site, "text", to, tpl, arg)
SendAudioLink(site, to, url) == Call(site, "audio", to, "audio", url)

\* translateText: null (<<>>) when the request throws or the answer has no
\* truthy translatedText, else the translation.
TranslateText(resp) ==
  IF resp.throws THEN <<>>
  ELSE IF resp.translatedText # <<>> THEN resp.translatedText ELSE <<>>

\* googleTTS.getAudioUrl(txt, {lang, slow, host}) when it returns.
AudioUrl(txt, lang) ==
  <<"https://translate.google.com/translate_tts?tl=">> \o lang
    \o <<"&q=">> \o txt

\* ---------------------------------------------------------------- commands
\* Each execute function up to its first outbound call.  c is the ctx object.
enUS == <<"e","n">>

StartExecute(c) == SendText("start1", c.from, "welcome", <<>>)

PingExecute(c) == SendText("ping", c.from, "pong", <<>>)

HelpExecute(c, m) == SendText("help", c.from, "commands", HelpLines(m, 1, {}))

\* [lang, ...rest] = args.split("|"); txt = rest.join("|").trim()
PipeLang(args) == Split(args, "|")[1]
PipeText(args) == Trim(Join(Tail(Split(args, "|")), "|"))
\* (lang || "en").trim()
PipeTarget(args) ==
  Trim(IF PipeLang(args) # <<>> THEN PipeLang(args) ELSE enUS)

\* Fault: translate that does not check for text after the pipe.
TranslateExecuteUnchecked(c) ==
  IF c.args = <<>> \/ ~Includes(c.args, "|")
  THEN SendText("trUsage", c.from, "translateUsage", <<>>)
  ELSE Call("trCall", "translate", "", "translate",
            PipeTarget(c.args) \o <<"|">> \o PipeText(c.args))

TranslateExecute(c) ==
  IF c.args = <<>> \/ ~Includes(c.args, "|")
  THEN SendText("trUsage", c.from, "translateUsage", <<>>)
  ELSE IF PipeText(c.args) = <<>>
  THEN SendText("trNoText", c.from, "noTextToTranslate", <<>>)
  ELSE Call("trCall", "translate", "", "translate",
            PipeTarget(c.args) \o <<"|">> \o PipeText(c.args))

\* langCode || "en"
TtsLang(args) ==
  IF PipeTarget(args) # <<>> THEN PipeTarget(args) ELSE enUS

TtsExecute(c) ==
  IF c.args = <<>> \/ ~Includes(c.args, "|")
  THEN SendText("ttsUsage", c.from, "ttsUsage", <<>>)
  ELSE IF PipeText(c.args) = <<>>
  THEN SendText("ttsNoText", c.from, "noTextProvided", <<>>)
  ELSE Call("ttsUrl", "ttsUrl", "", "getAudioUrl",
            AudioUrl(PipeText(c.args), TtsLang(c.args)))

\* toEcho = args || raw || ""
EchoExecute(c) ==
  SendText("echo", c.from, "echo",
           IF c.args # <<>> THEN c.args ELSE c.raw)

Execute(cmd, c, m) ==
  CASE cmd.execute = "start"     -> StartExecute(c)
    [] cmd.execute = "ping"      -> PingExecute(c)
    [] cmd.execute = "help"      -> HelpExecute(c, m)
    [] cmd.execute = "translate" -> TranslateExecute(c)
    [] cmd.execute = "tts"       -> TtsExecute(c)
    [] OTHER                     -> EchoExecute(c)

\* The outbound calls made inside an execute function, inside the dispatcher's
\* catch, and by the request handler itself.
HandlerSites ==
  {"start1", "start2", "ping", "help", "trUsage", "trNoText", "trCall",
   "trOk", "trFail", "ttsUsage", "ttsNoText", "ttsUrl", "ttsAudio",
   "ttsFail", "echo"}
DispatcherSites == {"cmdErr"}
RouterSites == {"fb1", "fb2", "youSaid", "nonText"}

\* ------------------------------------------------------------ control flow
\* Where control goes next: pc and the call awaited, the dispatcher's result,
\* the response.
Ctl(p, call, d, st, body) ==
  [pc |-> p, pend |-> call, did |-> d, status |-> st, resBody |-> body]

AwaitCall(call, d) == Ctl("await", call, d, 0, "")

\* The end of the loop body (or its continue).
IterationEnd(d) == Ctl("iterEnd", NoCall, d, 0, "")

\* The catch of the request handler: res.status(500).send("Server error").
TopLevelCatch(d) == Ctl("done", NoCall, d, 500, "Server error")

\* dispatchCommandByName has returned d to its caller; mfrom is message.from.
Returned(d, mfrom, who) ==
  CASE who = "onboarding" ->
         IF d = "false"
         THEN AwaitCall(SendText("fb1", mfrom, "fallbackWelcome", <<>>), d)
         ELSE IterationEnd(d)
    [] who = "command" -> IterationEnd(d)
    [] OTHER -> Ctl("returned", NoCall, d, 0, "")

\* err.message || "internal error"
ErrorDetail(e) == IF e # "" THEN e ELSE "internal error"

\* Fault: the notice send of the dispatcher's catch left out of its own try.
CatchOfUnguardedNotice(site) ==
  CASE site \in {"ttsUrl", "ttsAudio"} -> "ttsCatch"
    [] site \in HandlerSites \ {"ttsUrl", "ttsAudio"} -> "dispatchCatch"
    [] OTHER                           -> "topLevelCatch"

\* The try block around a site: what takes an error raised there.
CatchOf(site) ==
  CASE site \in {"ttsUrl", "ttsAudio"} -> "ttsCatch"
    [] site \in HandlerSites \ {"ttsUrl", "ttsAudio"} -> "dispatchCatch"
    [] site \in DispatcherSites        -> "swallow"
    [] OTHER                           -> "topLevelCatch"

\* The call at `site` rejected (or threw) with an error whose message is e.
\* cfrom is ctx.from, d the value of the handler's variable did.
OnReject(site, e, cfrom, mfrom, who, d) ==
  CASE CatchOf(site) = "ttsCatch" ->
         AwaitCall(SendText("ttsFail", cfrom, "ttsFailed", <<>>), "none")
    [] CatchOf(site) = "dispatchCatch" ->
         AwaitCall(SendText("cmdErr", cfrom, "commandError",
                            <<ErrorDetail(e)>>), "none")
    [] CatchOf(site) = "swallow" -> Returned("true", mfrom, who)
    [] OTHER ->
         IF site \in RouterSites \/ who \in {"onboarding", "command"}
         THEN TopLevelCatch(d)
         ELSE Ctl("raised", NoCall, d, 0, "")

\* The send at `site` resolved.
OnResolve(site, cfrom, mfrom, who, d) ==
  CASE site = "start1" ->
         AwaitCall(SendText("start2", cfrom, "links", <<>>), "none")
    [] site = "fb1" ->
         AwaitCall(SendText("fb2", mfrom, "fallbackLinks", <<>>), d)
    [] site \in RouterSites \ {"fb1"} -> IterationEnd(d)
    [] OTHER -> Returned("true", mfrom, who)

\* translateText returned `translated` to the translate command.
OnTranslated(translated, target, cfrom) ==
  IF translated # <<>>
  THEN AwaitCall(SendText("trOk", cfrom, "translated",
                          target \o <<")", ":", " ">> \o translated), "none")
  ELSE AwaitCall(SendText("trFail", cfrom, "translationFailed", <<>>), "none")

\* dispatchCommandByName(name, c) up to the first outbound call of the command.
Dispatch(name, c, m, who) ==
  IF name = <<>> THEN Returned("false", c.from, who)
  ELSE IF ~MapHas(m, name) THEN Returned("false", c.from, who)
  ELSE AwaitCall(Execute(MapGet(m, name), c, m), "none")

\* The execute function dispatchCommandByName calls, if any.
Invokes(name, m) ==
  IF name # <<>> /\ MapHas(m, name) THEN <<MapGet(m, name).execute>> ELSE <<>>

\* ------------------------------------------------------------- the router
\* text = message.text.body.trim(); tokens = text.split(" ").filter(Boolean)
TextOf(m) == Trim(m.body)
TokensOf(m) == FilterBoolean(Split(TextOf(m), " "))
\* first = tokens[0] || ""
FirstOf(m) == LET tokens == TokensOf(m) IN IF tokens # <<>> THEN tokens[1] ELSE <<>>
\* tokens.slice(1).join(" ")
RestOf(m) == Join(Slice1(TokensOf(m)), " ")

\* type === "text" && message.text && message.text.body
IsTextMessage(m) == m.type = "text" /\ m.hasBody /\ m.body # <<>>

\* Fault: the trigger list without the greeting "hi".
OnboardingTriggersWithoutHi ==
  { <<"/">> \o kStart, kStart, <<"h","e","l","l","o">>, <<"h","e","y">> }

OnboardingTriggers ==
  { <<"/">> \o kStart, kStart, <<"h","i">>, <<"h","e","l","l","o">>,
    <<"h","e","y">> }

IsPrefixed(first) == StartsWith(first, "/") \/ StartsWith(first, "!")

\* Fault: command parsing that knows the "/" prefix only.
ParsedNameSlashOnly(first, m) ==
  IF StartsWith(first, "/") THEN ToLowerCase(Slice1(first))
  ELSE IF MapHas(m, ToLowerCase(first)) THEN ToLowerCase(first)
  ELSE <<>>

\* cmdName after the command parsing; null is <<>>, falsy like "".
ParsedName(first, m) ==
  IF IsPrefixed(first) THEN ToLowerCase(Slice1(first))
  ELSE IF MapHas(m, ToLowerCase(first)) THEN ToLowerCase(first)
  ELSE <<>>

\* argsRaw after the command parsing.
ParsedArgs(first, rest, m) ==
  IF IsPrefixed(first) THEN rest
  ELSE IF MapHas(m, ToLowerCase(first)) THEN rest
  ELSE <<>>

MkCtx(from, raw, args) == [from |-> from, raw |-> raw, args |-> args]
NoCtx == MkCtx("", <<>>, <<>>)

\* What one iteration does with message m up to its first outbound call: the
\* ctx it builds, the name it dispatches, the call site, and where control goes.
Routed(c, name, who, ctl) == [ctx |-> c, name |-> name, who |-> who, ctl |-> ctl]

RouteMessage(m, cmds) ==
  IF IsTextMessage(m)
  THEN IF ToLowerCase(FirstOf(m)) \in OnboardingTriggers
       THEN LET c == MkCtx(m.from, TextOf(m), RestOf(m))
            IN  Routed(c, kStart, "onboarding",
                       Dispatch(kStart, c, cmds, "onboarding"))
       ELSE LET name == ParsedName(FirstOf(m), cmds)
                c == MkCtx(m.from, TextOf(m),
                           ParsedArgs(FirstOf(m), RestOf(m), cmds))
            IN  IF name # <<>> /\ MapHas(cmds, name)
                THEN Routed(c, name, "command",
                            Dispatch(name, c, cmds, "command"))
                ELSE Routed(NoCtx, <<>>, "none",
                            AwaitCall(SendText("youSaid", m.from, "youSaid",
                                               TextOf(m)), "none"))
  ELSE Routed(NoCtx, <<>>, "none",
              AwaitCall(SendText("nonText", m.from, "nonText", <<>>), "none"))

\* ---------------------------------------------------------------- requests
NoReq == [method |-> "", query |-> NoQuery, hasEntry |-> FALSE]

\* JavaScript's a || b on values that are undefined or strings.
Truthy(v) == v # Undef /\ v # ""
Or(a, b) == IF Truthy(a) THEN a ELSE b

QMode(q) == Or(q.hubMode, q.mode)
QToken(q) == Or(q.hubToken, q.token)
QChallenge(q) == Or(q.hubChallenge, q.challenge)

\* mode && token === VERIFY_TOKEN
Verified(q, secret) == Truthy(QMode(q)) /\ QToken(q) = secret

Goto(k) ==
  /\ pc' = k.pc
  /\ pend' = k.pend
  /\ did' = k.did
  /\ status' = k.status
  /\ resBody' = k.resBody

Respond(st, body) ==
  /\ pc' = "done"
  /\ status' = st
  /\ resBody' = body

Init ==
  /\ VERIFY_TOKEN \in EnvTokens
  /\ commands = BuiltinCommands
  /\ registered = Builtins
  /\ pc = "idle"
  /\ req = NoReq
  /\ status = 0
  /\ resBody = ""
  /\ n = 0
  /\ idx = 0
  /\ msg = NoMsg
  /\ ctx = NoCtx
  /\ cmdName = <<>>
  /\ caller = "none"
  /\ did = "none"
  /\ invoked = <<>>
  /\ pend = NoCall
  /\ sent = <<>>
  /\ calls = <<>>
  /\ thrown = {}

\* GET: the verification handshake.
GetWith(q) ==
  /\ req' = [method |-> "GET", query |-> q, hasEntry |-> FALSE]
  /\ IF Verified(q, VERIFY_TOKEN)
     THEN Respond(200, Or(QChallenge(q), "OK"))
     ELSE Respond(403, "Invalid verify token")
  /\ UNCHANGED <<VERIFY_TOKEN, commands, registered, n, idx, msg,
                 ctx, cmdName, caller, did, invoked, pend, sent, calls, thrown>>

Get ==
  /\ pc = "idle"
  /\ \E q \in Queries : GetWith(q)

\* Any method but GET and POST.
OtherMethod(method) ==
  /\ pc = "idle"
  /\ req' = [method |-> method, query |-> NoQuery, hasEntry |-> FALSE]
  /\ Respond(405, "Method Not Allowed")
  /\ UNCHANGED <<VERIFY_TOKEN, commands, registered, n, idx, msg,
                 ctx, cmdName, caller, did, invoked, pend, sent, calls, thrown>>

\* POST with no body, or a body whose entry is not an array.
PostNoValidBody ==
  /\ pc = "idle"
  /\ req' = [method |-> "POST", query |-> NoQuery, hasEntry |-> FALSE]
  /\ Respond(400, "No valid body")
  /\ UNCHANGED <<VERIFY_TOKEN, commands, registered, n, idx, msg,
                 ctx, cmdName, caller, did, invoked, pend, sent, calls, thrown>>

\* POST with an entry array holding k messages in all: the loops begin.
PostBegin(k) ==
  /\ pc = "idle"
  /\ req' = [method |-> "POST", query |-> NoQuery, hasEntry |-> TRUE]
  /\ n' = k
  /\ pc' = "loop"
  /\ UNCHANGED <<VERIFY_TOKEN, commands, registered, status,
                 resBody, idx, msg, ctx, cmdName, caller, did, invoked, pend,
                 sent, calls, thrown>>

\* One iteration of the messages loop, up to its first outbound call.
Iterate(m) ==
  /\ msg' = m
  /\ LET r == RouteMessage(m, commands)
     IN  /\ ctx' = r.ctx
         /\ cmdName' = r.name
         /\ caller' = r.who
         /\ invoked' = IF r.who = "none" THEN <<>> ELSE Invokes(r.name, commands)
         /\ Goto(r.ctl)
  /\ UNCHANGED <<VERIFY_TOKEN, commands, registered, req, n, idx,
                 sent, calls, thrown>>

NextMessage ==
  /\ pc = "loop"
  /\ idx < n
  /\ \E m \in Messages : Iterate(m)

\* sendToMeta resolves: the awaited sendText or sendAudioLink returns.
SendResolves ==
  /\ pc = "await"
  /\ pend.kind \in {"text", "audio"}
  /\ sent' = Append(sent, [call |-> pend, ok |-> TRUE])
  /\ Goto(OnResolve(pend.site, ctx.from, msg.from, caller, did))
  /\ UNCHANGED <<VERIFY_TOKEN, commands, registered, req, n, idx,
                 msg, ctx, cmdName, caller, invoked, calls, thrown>>

\* fetch rejects inside sendToMeta: the awaited send throws an error whose
\* message is e.
SendRejects(e) ==
  /\ pc = "await"
  /\ pend.kind \in {"text", "audio"}
  /\ sent' = Append(sent, [call |-> pend, ok |-> FALSE])
  /\ thrown' = thrown \cup {e}
  /\ Goto(OnReject(pend.site, e, ctx.from, msg.from, caller, did))
  /\ UNCHANGED <<VERIFY_TOKEN, commands, registered, req, n, idx,
                 msg, ctx, cmdName, caller, invoked, calls>>

\* translateText returns to the translate command.
TranslateReturns(resp) ==
  /\ pc = "await"
  /\ pend.kind = "translate"
  /\ calls' = Append(calls, pend.arg)
  /\ Goto(OnTranslated(TranslateText(resp), PipeTarget(ctx.args), ctx.from))
  /\ UNCHANGED <<VERIFY_TOKEN, commands, registered, req, n, idx,
                 msg, ctx, cmdName, caller, invoked, sent, thrown>>

\* googleTTS.getAudioUrl returns the URL: the tts command sends it.
GetAudioUrlReturns ==
  /\ pc = "await"
  /\ pend.kind = "ttsUrl"
  /\ Goto(AwaitCall(SendAudioLink("ttsAudio", ctx.from, pend.arg), "none"))
  /\ UNCHANGED <<VERIFY_TOKEN, commands, registered, req, n, idx,
                 msg, ctx, cmdName, caller, invoked, sent, calls, thrown>>

\* googleTTS.getAudioUrl throws.
GetAudioUrlThrows(e) ==
  /\ pc = "await"
  /\ pend.kind = "ttsUrl"
  /\ thrown' = thrown \cup {e}
  /\ Goto(OnReject(pend.site, e, ctx.from, msg.from, caller, did))
  /\ UNCHANGED <<VERIFY_TOKEN, commands, registered, req, n, idx,
                 msg, ctx, cmdName, caller, invoked, sent, calls>>

\* The iteration ends: its bindings go out of scope.
EndIteration ==
  /\ pc = "iterEnd"
  /\ pc' = "loop"
  /\ idx' = idx + 1
  /\ msg' = NoMsg
  /\ ctx' = NoCtx
  /\ cmdName' = <<>>
  /\ caller' = "none"
  /\ did' = "none"
  /\ invoked' = <<>>
  /\ sent' = <<>>
  /\ calls' = <<>>
  /\ thrown' = {}
  /\ UNCHANGED <<VERIFY_TOKEN, commands, registered, req, status,
                 resBody, n, pend>>

\* The loops are over: res.status(200).send("EVENT_RECEIVED").
PostEnd ==
  /\ pc = "loop"
  /\ idx = n
  /\ Respond(200, "EVENT_RECEIVED")
  /\ UNCHANGED <<VERIFY_TOKEN, commands, registered, req, n, idx,
                 msg, ctx, cmdName, caller, did, invoked, pend, sent, calls,
                 thrown>>

TtsErrMessages == {"text should be a string"}

Next ==
  \/ Get
  \/ \E method \in {"PUT", "DELETE"} : OtherMethod(method)
  \/ PostNoValidBody
  \/ \E k \in 0..MaxMsgs : PostBegin(k)
  \/ NextMessage
  \/ SendResolves
  \/ \E e \in ErrMessages : SendRejects(e)
  \/ \E resp \in TranslateResponses : TranslateReturns(resp)
  \/ GetAudioUrlReturns
  \/ \E e \in TtsErrMessages : GetAudioUrlThrows(e)
  \/ EndIteration
  \/ PostEnd

Spec == Init /\ [][Next]_vars

\* ------------------------------------------------- dispatcher, on its own
\* dispatchCommandByName called with any name and ctx.
DispatchNames ==
  MapKeys(BuiltinCommands) \cup { <<>>, <<"y">>, <<"P">>, <<"/">> \o kPing }
DispatchArgs ==
  { <<>>, <<"y">>, <<"|">>, <<"|","y">>, <<"i","d","|","y">>,
    <<" ","|"," ">> }
DispatchCtxs ==
  { MkCtx(from, raw, args) :
      from \in Senders, raw \in { <<>>, <<"r","a","w">> }, args \in DispatchArgs }

DispatchWith(name, c) ==
  /\ ctx' = c
  /\ cmdName' = name
  /\ caller' = "direct"
  /\ invoked' = Invokes(name, commands)
  /\ Goto(Dispatch(name, c, commands, "direct"))
  /\ UNCHANGED <<VERIFY_TOKEN, commands, registered, req, n, idx, msg, sent,
                 calls, thrown>>

CallDispatch ==
  /\ pc = "idle"
  /\ \E name \in DispatchNames, c \in DispatchCtxs : DispatchWith(name, c)

NextDispatch ==
  \/ CallDispatch
  \/ SendResolves
  \/ \E e \in ErrMessages : SendRejects(e)
  \/ \E resp \in TranslateResponses : TranslateReturns(resp)
  \/ GetAudioUrlReturns
  \/ \E e \in TtsErrMessages : GetAudioUrlThrows(e)

SpecDispatch == Init /\ [][NextDispatch]_vars

\* --------------------------------------------------- register, on its own
\* register called with any descriptors, starting from the empty Map.
RegNames == { <<"a">>, <<"b">>, <<"c">> }

RECURSIVE AliasLists(_)
AliasLists(k) ==
  IF k = 0 THEN { <<>> }
  ELSE LET shorter == AliasLists(k - 1)
       IN  shorter \cup { Append(l, a) : l \in shorter, a \in RegNames }

\* The descriptors a call can be given; id is the identity of a new object.
RegInputs(id) ==
  { Cmd(id, name, as, "echo") : name \in RegNames, as \in AliasLists(MaxAliases) }
  \cup { [Cmd(id, name, <<>>, "echo") EXCEPT !.isArr = FALSE] : name \in RegNames }
  \cup { Cmd(id, <<>>, <<>>, "echo"), Cmd(id, <<"a">>, << <<"b">> >>, "none") }

InitReg ==
  /\ VERIFY_TOKEN \in EnvTokens
  /\ commands = <<>>
  /\ registered = <<>>
  /\ pc = "idle"
  /\ req = NoReq
  /\ status = 0
  /\ resBody = ""
  /\ n = 0
  /\ idx = 0
  /\ msg = NoMsg
  /\ ctx = NoCtx
  /\ cmdName = <<>>
  /\ caller = "none"
  /\ did = "none"
  /\ invoked = <<>>
  /\ pend = NoCall
  /\ sent = <<>>
  /\ calls = <<>>
  /\ thrown = {}

RegisterWith(cmd) ==
  /\ commands' = register(commands, cmd)
  /\ registered' = IF Accepted(cmd) THEN Append(registered, cmd) ELSE registered
  /\ UNCHANGED <<VERIFY_TOKEN, pc, req, status, resBody, n, idx, msg, ctx,
                 cmdName, caller, did, invoked, pend, sent, calls, thrown>>

Register ==
  /\ Len(registered) < MaxRegs
  /\ \E cmd \in RegInputs(Len(registered) + 1) : RegisterWith(cmd)

NextReg == Register

SpecReg == InitReg /\ [][NextReg]_vars

\* ================================================================= claims
\* What the formulas below read off the state.
SentTpls == [i \in 1..Len(sent) |-> sent[i].call.tpl]
AllSendsOk == \A i \in 1..Len(sent) : sent[i].ok
PostDone == pc = "done" /\ req.method = "POST" /\ req.hasEntry
InIteration == msg # NoMsg
\* The first outbound call of the iteration: sent already, or still awaited.
FirstCallTpl == IF sent # <<>> THEN sent[1].call.tpl ELSE pend.tpl

\* C1 (as claimed): a POST whose body has an entry array is always answered
\* 200, whatever the outbound sends and collaborator calls did.
C1_AlwaysAcknowledged == PostDone => status = 200

\* C2 (as claimed): once a POST delivery is answered, every one of its n
\* messages has been routed: a failure in one message never keeps the later
\* ones from being processed.
C2_EveryMessageRouted ==
  PostDone => idx + (IF InIteration THEN 1 ELSE 0) = n

\* C3 (as claimed): a GET is answered 200 only when a mode parameter is
\* present and the supplied token equals a configured secret; with the token
\* absent, different, or no secret configured, the answer is 403.
C3_VerifiedOnlyWithSecret ==
  (pc = "done" /\ req.method = "GET") =>
    LET q == req.query
        token == QToken(q)
    IN  /\ status = 200 =>
             /\ q.hubMode # Undef \/ q.mode # Undef
             /\ VERIFY_TOKEN # Undef
             /\ token # Undef
             /\ token = VERIFY_TOKEN
        /\ (token = Undef \/ token # VERIFY_TOKEN \/ VERIFY_TOKEN = Undef)
             => status = 403

\* Not a text message, or a text body that is empty once trimmed.
C4_EmptyOrNonText(m) == m.type # "text" \/ ~m.hasBody \/ Trim(m.body) = <<>>

\* C4 (as claimed): a message that is not text, or whose text body is empty
\* after trimming (a body of white space included), gets exactly the fixed
\* notice: no command is dispatched and no "You said" fallback is sent.
C4_NoticeOnly ==
  (InIteration /\ C4_EmptyOrNonText(msg)) =>
    /\ invoked = <<>>
    /\ Len(sent) <= 1
    /\ FirstCallTpl = "nonText"

\* The greetings, and the messages that open with one.
C5_Triggers ==
  { <<"/","s","t","a","r","t">>, <<"s","t","a","r","t">>, <<"h","i">>,
    <<"h","e","l","l","o">>, <<"h","e","y">> }
C5_IsTrigger(m) == IsTextMessage(m) /\ ToLowerCase(FirstOf(m)) \in C5_Triggers

\* C5: a text message whose first token, lower-cased, is /start, start, hi,
\* hello or hey dispatches start exactly once; nothing but start's texts (and
\* the dispatcher's notice) is sent; while sends succeed the texts are the
\* welcome and then the links, to the sender, and the iteration ends with
\* exactly these two.
C5_StartOnce ==
  (InIteration /\ C5_IsTrigger(msg)) =>
    /\ invoked = <<"start">>
    /\ caller = "onboarding"
    /\ pend.tpl \in {"", "welcome", "links", "commandError"}
    /\ \A i \in 1..Len(sent) :
         /\ sent[i].call.tpl \in {"welcome", "links", "commandError"}
         /\ sent[i].call.kind = "text"
         /\ sent[i].call.to = msg.from
    /\ AllSendsOk =>
         /\ SentTpls \in { <<>>, <<"welcome">>, <<"welcome", "links">> }
         /\ pc = "iterEnd" => SentTpls = <<"welcome", "links">>

\* C5 witness: a greeting in capitals has been answered with both texts.
C5_Witness ==
  /\ pc = "iterEnd"
  /\ C5_IsTrigger(msg)
  /\ FirstOf(msg) = <<"H","i">>
  /\ AllSendsOk
  /\ Len(sent) = 2

\* The candidate name of a first token, and the messages command parsing sees.
C6_Candidate(first) ==
  LET lc == ToLowerCase(first)
  IN  IF lc # <<>> /\ lc[1] \in {"/", "!"} THEN SubSeq(lc, 2, Len(lc)) ELSE lc
C6_Applies(m) ==
  IsTextMessage(m) /\ Trim(m.body) # <<>> /\ ~C5_IsTrigger(m)

\* C6: for a non-empty text message whose first token is no trigger, with the
\* candidate the first token lower-cased and one leading / or ! stripped: a
\* candidate that is a registry key dispatches exactly that command, with the
\* tokens from index 1 on joined by single spaces as args, and no fallback;
\* any other candidate runs no command and sends exactly one fallback text
\* echoing the received text.
C6_CommandOrFallback ==
  (InIteration /\ C6_Applies(msg)) =>
    LET cand == C6_Candidate(FirstOf(msg))
    IN  IF cand \in MapKeys(commands)
        THEN /\ caller = "command"
             /\ cmdName = cand
             /\ invoked = <<MapGet(commands, cand).execute>>
             /\ ctx.args = RestOf(msg)
             /\ ctx.raw = TextOf(msg)
             /\ pend.tpl # "youSaid"
             /\ \A i \in 1..Len(sent) : sent[i].call.tpl # "youSaid"
        ELSE /\ invoked = <<>>
             /\ Len(sent) <= 1
             /\ pc # "await" => Len(sent) = 1
             /\ FirstCallTpl = "youSaid"
             /\ (IF sent # <<>> THEN sent[1].call.arg ELSE pend.arg)
                  = TextOf(msg)

\* C6 witness: a prefixed alias has been dispatched and its iteration ended.
C6_Witness ==
  /\ pc = "iterEnd"
  /\ C6_Applies(msg)
  /\ FirstOf(msg) \in { <<"!","p">>, <<"/","p">> }
  /\ invoked = <<"ping">>
  /\ SentTpls = <<"pong">>

\* The aliases and the keys a descriptor is stored under.
C7_Aliases(d) == IF d.isArr THEN {d.aliases[i] : i \in 1..Len(d.aliases)} ELSE {}
C7_Keys(d) == {d.name} \cup C7_Aliases(d)

\* No two registered descriptors share a key.
C7_NoCollision ==
  \A i, j \in 1..Len(registered) :
    i < j => C7_Keys(registered[i]) \cap C7_Keys(registered[j]) = {}

\* C7 (as claimed): after any register calls, collisions included, every
\* alias of every registered descriptor looks up to the same descriptor as
\* its canonical name, and the canonical name is a key.
C7_AliasesResolve ==
  \A i \in 1..Len(registered) :
    LET d == registered[i]
    IN  /\ MapHas(commands, d.name)
        /\ \A a \in C7_Aliases(d) :
             /\ MapHas(commands, a)
             /\ MapGet(commands, a) = MapGet(commands, d.name)

\* C7 (amended): the canonical name of every registered descriptor is a key;
\* and as long as no two registered descriptors share a key, each name and
\* each alias looks up to its own descriptor.
C7_AliasesResolveUnlessCollision ==
  /\ \A i \in 1..Len(registered) : MapHas(commands, registered[i].name)
  /\ C7_NoCollision =>
       \A i \in 1..Len(registered) :
         \A k \in C7_Keys(registered[i]) :
           MapHas(commands, k) /\ MapGet(commands, k) = registered[i]

\* C7 witness: two descriptors with an alias each, no key shared.
C7_Witness ==
  /\ Len(registered) = 2
  /\ C7_NoCollision
  /\ C7_Aliases(registered[1]) # {}
  /\ C7_Aliases(registered[2]) # {}

\* The args of translate: whether they hold a pipe, what follows the first
\* one, and the calls to the collaborator made or under way.
C8_HasPipe(a) == \E i \in 1..Len(a) : a[i] = "|"
C8_AfterPipe(a) ==
  LET i == CHOOSE i \in 1..Len(a) :
             a[i] = "|" /\ \A j \in 1..(i - 1) : a[j] # "|"
  IN  SubSeq(a, i + 1, Len(a))
C8_NoText(a) == ~C8_HasPipe(a) \/ Trim(C8_AfterPipe(a)) = <<>>
C8_TranslateCalls == Len(calls) + (IF pend.kind = "translate" THEN 1 ELSE 0)

\* C8 (as claimed): translate with no pipe in its args, or with nothing but
\* white space after the first pipe, sends the usage message and never calls
\* the translation collaborator.
C8_UsageAndNoCall ==
  (invoked = <<"translate">> /\ C8_NoText(ctx.args)) =>
    /\ C8_TranslateCalls = 0
    /\ FirstCallTpl = "translateUsage"

\* C8 (amended): translate with no pipe sends the usage message; with a pipe
\* and nothing but white space after the first one it sends the fixed notice
\* "No text to translate provided."; in both cases that is its only send and
\* the collaborator is not called.  With text after the pipe the collaborator
\* is called exactly once.
C8_NoticeAndNoCall ==
  invoked = <<"translate">> =>
    /\ ~C8_HasPipe(ctx.args) =>
         /\ C8_TranslateCalls = 0
         /\ FirstCallTpl = "translateUsage"
         /\ (AllSendsOk /\ pc # "await") => Len(sent) = 1
    /\ (C8_HasPipe(ctx.args) /\ C8_NoText(ctx.args)) =>
         /\ C8_TranslateCalls = 0
         /\ FirstCallTpl = "noTextToTranslate"
         /\ (AllSendsOk /\ pc # "await") => Len(sent) = 1
    /\ ~C8_NoText(ctx.args) =>
         /\ C8_TranslateCalls = 1
         /\ \A i \in 1..Len(calls) :
              calls[i] = PipeTarget(ctx.args) \o <<"|">>
                           \o Trim(C8_AfterPipe(ctx.args))

\* C8 witness: translate ran on args ending in the pipe and its notice went out.
C8_Witness ==
  /\ pc = "iterEnd"
  /\ invoked = <<"translate">>
  /\ C8_HasPipe(ctx.args)
  /\ C8_NoText(ctx.args)
  /\ SentTpls = <<"noTextToTranslate">>

\* C9 (as claimed): no outbound send carries text of an error that was
\* raised.
C9_NoErrorTextSent ==
  \A i \in 1..Len(sent) :
    \A j \in 1..Len(sent[i].call.arg) :
      sent[i].call.arg[j] \notin (thrown \ {""})

\* A send of the command, outside the try of tts, has failed; and the error
\* notices attempted.
C10_HandlerFailed ==
  \E i \in 1..Len(sent) :
    ~sent[i].ok /\ sent[i].call.tpl \notin {"audio", "commandError"}
C10_Notices ==
  Cardinality({i \in 1..Len(sent) : sent[i].call.tpl = "commandError"})

\* C10: dispatchCommandByName never raises; for an empty name or a name that
\* is no key it returns false, having invoked and sent nothing; for a key it
\* returns true, having invoked one command; when that command failed,
\* exactly one error notice to the sender was attempted, and its failure
\* changes nothing.
C10_DispatchContract ==
  /\ pc # "raised"
  /\ pc = "returned" =>
       IF cmdName = <<>> \/ cmdName \notin MapKeys(commands)
       THEN did = "false" /\ invoked = <<>> /\ sent = <<>> /\ calls = <<>>
       ELSE /\ did = "true"
            /\ Len(invoked) = 1
            /\ C10_Notices = (IF C10_HandlerFailed THEN 1 ELSE 0)
            /\ C10_HandlerFailed =>
                 /\ sent[Len(sent)].call.tpl = "commandError"
                 /\ sent[Len(sent)].call.to = ctx.from

\* C10 witness: the command failed, the notice failed too, and the call
\* returned true.
C10_Witness ==
  /\ pc = "returned"
  /\ did = "true"
  /\ C10_HandlerFailed
  /\ sent[Len(sent)].call.tpl = "commandError"
  /\ ~sent[Len(sent)].ok

====
